---- MODULE Spec2Model ----
(***************************************************************************)
(* Selection-to-mask pipeline of the watermark remover: the page-level     *)
(* controller (App), the rectangular selection editor (ImageSelector) with *)
(* its coordinate mapper, drag tracker and mask rasterizer.                *)
(*                                                                         *)
(* Numbers.  JavaScript numbers are binary floating point, rounded to      *)
(* nearest (ties to even) after every operation.  A number is modelled as  *)
(* an integer count of 2^-FracBits pixel (the grid), and every arithmetic  *)
(* result is rounded to MantBits significant bits.  Whole pixels (natural  *)
(* sizes, client coordinates, bounding boxes) are plain integers.          *)
(***************************************************************************)
EXTENDS Integers, Sequences, FiniteSets, TLC

\* ------------------------------------------------------------------ bounds
MantBits == 8      \* significant bits kept by an arithmetic result
FracBits == 12     \* the grid: one pixel is 2^FracBits units
SmallW == 4        \* natural width of the small images
SmallH == 3        \* natural height of the small images

\* -------------------------------------------------------------- arithmetic
RECURSIVE Pow2(_)
Pow2(n) == IF n <= 0 THEN 1 ELSE 2 * Pow2(n - 1)

Unit == Pow2(FracBits)

Abs(a) == IF a < 0 THEN -a ELSE a

Min(a, b) == IF a <= b THEN a ELSE b

Max(a, b) == IF a >= b THEN a ELSE b

RECURSIVE BitLen(_)
BitLen(m) == IF m <= 0 THEN 0 ELSE 1 + BitLen(m \div 2)

\* n/d (n >= 0, d > 0) to the nearest integer, ties to the even one
RoundHalfEven(n, d) ==
  LET t == n \div d
      r == n % d
  IN  IF 2 * r < d THEN t
      ELSE IF 2 * r > d THEN t + 1
      ELSE IF t % 2 = 0 THEN t ELSE t + 1

\* the representable number nearest to n/d grid units
RoundRatio(n, d) ==
  LET a == Abs(n)
      len == BitLen(a \div d)
      q == IF len > MantBits THEN Pow2(len - MantBits) ELSE 1
      m == q * RoundHalfEven(a, d * q)
  IN  IF n < 0 THEN -m ELSE m

\* i / j for whole-pixel operands
FDiv(i, j) == RoundRatio(i * Unit, j)

\* i * s for a whole-pixel i and a number s
FMul(i, s) == RoundRatio(i * s, 1)

\* a - b
FSub(a, b) == RoundRatio(a - b, 1)

\* Math.abs
FAbs(a) == Abs(a)

\* ------------------------------------------------------------------ values
Null == [kind |-> "null"]

ClientPoint(cx, cy) == [kind |-> "client", x |-> cx, y |-> cy]

\* the image element: natural size and bounding client rectangle
Image(name, nw, nh, left, top, width, height) ==
  [kind |-> "file", name |-> name, naturalWidth |-> nw, naturalHeight |-> nh,
   rect |-> [left |-> left, top |-> top, width |-> width, height |-> height]]

\* shown at its natural size, offset from the client origin
ImageA == Image("A", SmallW, SmallH, 1, 1, SmallW, SmallH)

\* shown shrunk by one pixel per axis: the scale factors are fractions
ImageB == Image("B", SmallW, SmallH, 2, 1, SmallW - 1, SmallH - 1)

\* 800x600 shown at 400x300 with its origin at the client origin
ImageE == Image("E", 800, 600, 0, 0, 400, 300)

SmallImages == {ImageA, ImageB}

\* two files of the same geometry, told apart by name; on T the pointer is
\* tried at one position only, so T never gets a selection with an area
ImageS == Image("S", 2, 2, 0, 0, 2, 2)

ImageT == Image("T", 2, 2, 0, 0, 2, 2)

AppImages == {ImageS, ImageT}

\* pointer positions over the canvas that the model tries
InsidePoints(f) ==
  IF f.name = "E"
  THEN {ClientPoint(100, 50), ClientPoint(150, 100), ClientPoint(120, 50)}
  ELSE IF f.name = "T"
  THEN {ClientPoint(f.rect.left, f.rect.top)}
  ELSE IF f.name = "S"
  THEN {ClientPoint(f.rect.left, f.rect.top),
        ClientPoint(f.rect.left + f.rect.width, f.rect.top + f.rect.height)}
  ELSE {ClientPoint(f.rect.left + ox, f.rect.top + oy) :
          ox \in {1, f.rect.width - 1}, oy \in {0, f.rect.height - 1}}

\* positions a touch can move to after leaving the canvas
OutsidePoints(f) ==
  IF f.name = "E" \/ f \in AppImages
  THEN {}
  ELSE {ClientPoint(f.rect.left - 1, f.rect.top - 1),
        ClientPoint(f.rect.left + f.rect.width + 1, f.rect.top + f.rect.height + 1)}

AllPoints(f) == InsidePoints(f) \cup OutsidePoints(f)


\* ------------------------------------------------------------------- state
VARIABLES
  catalog,              \* the files the user has at hand
  env,                  \* process.env: whether API_KEY is configured
  file,                 \* App: the loaded file (its image element), or Null
  originalPreview,      \* App: the object URL of the loaded file, or Null
  processedImage,       \* App: the data URL of the result, or Null
  maskBase64,           \* App: the mask held by the caller, or Null
  appState,             \* App: "IDLE", "PROCESSING", "SUCCESS" or "ERROR"
  error,                \* App: the ProcessingError shown, or Null
  calls,                \* the removeWatermark calls that have not settled yet
  started,              \* how many removeWatermark calls were started
  imgMounted,           \* ImageSelector: whether imgRef.current is set
  isDrawing,            \* ImageSelector: React state
  selection,            \* ImageSelector: React state, the committed rectangle
  drawingRef,           \* ImageSelector: drawingRef.current
  startPosRef,          \* ImageSelector: startPosRef.current
  currentSelectionRef,  \* ImageSelector: currentSelectionRef.current
  lastEvent,            \* history: the handler that ran last and what it emitted
  gesture,              \* history: press point, last press-or-move point, the
                        \* rectangle then set, and whether Clear came since
  maskOrigin,           \* history: the file on whose image the held mask was drawn
  probe                 \* the coordinate-mapper experiment (SpecCoords only)

vars == <<catalog, env, file, originalPreview, processedImage, maskBase64, appState,
          error, calls, started, imgMounted, isDrawing, selection, drawingRef,
          startPosRef, currentSelectionRef, lastEvent, gesture, maskOrigin, probe>>

\* what a handler of the editor never touches
sessionVars == <<catalog, env, file, originalPreview, processedImage, appState, error,
                 calls, started, imgMounted>>

appVars == <<sessionVars, maskBase64, maskOrigin>>

selectorVars == <<isDrawing, selection, drawingRef, startPosRef, currentSelectionRef>>

\* -------------------------------------------------------- coordinate mapper
Point(x, y) == [kind |-> "point", x |-> x, y |-> y]

Rectangle(x, y, w, h) == [kind |-> "rect", x |-> x, y |-> y, w |-> w, h |-> h]

\* variant: the natural/displayed scale factors are not applied
getCoords_unscaled(img, e) ==
  IF img = Null THEN Point(0, 0)
  ELSE Point((e.x - img.rect.left) * Unit, (e.y - img.rect.top) * Unit)

\* variant: the displayed origin is not subtracted
getCoords_noOrigin(img, e) ==
  IF img = Null THEN Point(0, 0)
  ELSE Point(FMul(e.x, FDiv(img.naturalWidth, img.rect.width)),
             FMul(e.y, FDiv(img.naturalHeight, img.rect.height)))

\* variant: without an image element the client coordinates are passed through
getCoords_unguarded(img, e) ==
  IF img = Null THEN Point(e.x * Unit, e.y * Unit)
  ELSE Point(FMul(e.x - img.rect.left, FDiv(img.naturalWidth, img.rect.width)),
             FMul(e.y - img.rect.top, FDiv(img.naturalHeight, img.rect.height)))

\* getCoords: client coordinates to image-native coordinates
getCoords(img, e) ==
  IF img = Null THEN Point(0, 0)
  ELSE LET scaleX == FDiv(img.naturalWidth, img.rect.width)
           scaleY == FDiv(img.naturalHeight, img.rect.height)
       IN  Point(FMul(e.x - img.rect.left, scaleX),
                 FMul(e.y - img.rect.top, scaleY))

\* variant: the corner stays at the anchor whatever the drag direction
drawSelection_anchored(start, coords) ==
  Rectangle(start.x, start.y,
            FAbs(FSub(coords.x, start.x)), FAbs(FSub(coords.y, start.y)))

\* the rectangle draw() builds from the anchor and the current point
drawSelection(start, coords) ==
  LET w == FSub(coords.x, start.x)
      h == FSub(coords.y, start.y)
  IN  Rectangle(IF w > 0 THEN start.x ELSE coords.x,
                IF h > 0 THEN start.y ELSE coords.y,
                FAbs(w), FAbs(h))

\* ---------------------------------------------------------- mask rasterizer
\* a canvas is its size and the fills painted on it so far, oldest first
createCanvas(width, height) == [kind |-> "canvas", width |-> width, height |-> height, ops |-> <<>>]

fillRect(canvas, fillStyle, x, y, w, h) ==
  [canvas EXCEPT !.ops = Append(@, [fillStyle |-> fillStyle, x |-> x, y |-> y, w |-> w, h |-> h])]

\* how much of the pixel column/row [p, p+1) the span [lo, lo+len) covers
Overlap(lo, len, p) ==
  Max(0, Min(lo + len, (p + 1) * Unit) - Max(lo, p * Unit))

\* coverage of pixel (px, py) by a fill: "none", "partial" or "full"
Coverage(op, px, py) ==
  LET ox == Overlap(op.x, op.w, px)
      oy == Overlap(op.y, op.h, py)
  IN  IF ox = 0 \/ oy = 0 THEN "none"
      ELSE IF ox = Unit /\ oy = Unit THEN "full"
      ELSE "partial"

\* source-over compositing of one opaque fill; an edge pixel is anti-aliased
Paint(old, op, px, py) ==
  LET c == Coverage(op, px, py)
  IN  IF c = "none" THEN old
      ELSE IF c = "full" \/ old = op.fillStyle THEN op.fillStyle
      ELSE "blend"

RECURSIVE PaintAll(_, _, _, _)
PaintAll(old, ops, px, py) ==
  IF ops = <<>> THEN old
  ELSE PaintAll(Paint(old, Head(ops), px, py), Tail(ops), px, py)

\* colour of pixel (px, py): "transparent", "black", "white" or "blend"
PixelAt(canvas, px, py) == PaintAll("transparent", canvas.ops, px, py)

Pixels(canvas) == (0 .. canvas.width - 1) \X (0 .. canvas.height - 1)

\* the lossless encoding of a canvas as a data URL
toDataURL(canvas) == [kind |-> "dataurl", mime |-> "image/png", data |-> canvas]

\* the white-on-black raster of a rectangle on a fresh canvas
maskOf(img, sel) ==
  LET maskCanvas == createCanvas(img.naturalWidth, img.naturalHeight)
      black == fillRect(maskCanvas, "black", 0, 0,
                        maskCanvas.width * Unit, maskCanvas.height * Unit)
  IN  toDataURL(fillRect(black, "white", sel.x, sel.y, sel.w, sel.h))

\* variant: null only when both extents are zero
generateMask_bothZero(img, sel) ==
  IF img = Null \/ sel = Null THEN Null
  ELSE IF sel.w = 0 /\ sel.h = 0 THEN Null
  ELSE maskOf(img, sel)

\* variant: a degenerate rectangle returns without calling onMaskChange
generateMask_keep(img, sel) ==
  IF img = Null \/ sel = Null THEN maskBase64
  ELSE IF sel.w = 0 \/ sel.h = 0 THEN maskBase64
  ELSE maskOf(img, sel)

\* variant: the white fill is painted over the previous mask's canvas
generateMask_merge(img, sel) ==
  IF img = Null \/ sel = Null THEN Null
  ELSE IF sel.w = 0 \/ sel.h = 0 THEN Null
  ELSE IF maskBase64 = Null THEN maskOf(img, sel)
  ELSE toDataURL(fillRect(maskBase64.data, "white", sel.x, sel.y, sel.w, sel.h))

\* generateMask: what is handed to onMaskChange
generateMask(img, sel) ==
  IF img = Null \/ sel = Null THEN Null
  ELSE IF sel.w = 0 \/ sel.h = 0 THEN Null
  ELSE maskOf(img, sel)


\* ------------------------------------------------------------ the handlers
\* imgRef.current: the image element of the loaded file
imgRef == IF imgMounted THEN file ELSE Null

\* the editor is rendered while a preview exists and no result is shown
Mounted == originalPreview # Null /\ appState # "SUCCESS"

createObjectURL(f) == [kind |-> "objectURL", of |-> f.name]

\* history record of one handler run: the event, its client point, what
\* drawingRef and the caller's mask were before it, and what it emitted
Event(name, p, out) ==
  [event |-> name, point |-> p, wasDrawing |-> drawingRef, held |-> maskBase64,
   emitted |-> out]

Emitted(m) == IF m = Null THEN "null" ELSE "mask"

\* the state of a freshly mounted ImageSelector
SelectorInit ==
  /\ isDrawing = FALSE
  /\ selection = Null
  /\ drawingRef = FALSE
  /\ startPosRef = Null
  /\ currentSelectionRef = Null

SelectorReset ==
  /\ isDrawing' = FALSE
  /\ selection' = Null
  /\ drawingRef' = FALSE
  /\ startPosRef' = Null
  /\ currentSelectionRef' = Null

\* handleFileChange / handleDrop with an image file; the upload area is
\* rendered only while no preview is shown
handleFileChange(f) ==
  /\ originalPreview = Null
  /\ appState # "SUCCESS"
  /\ f \in catalog
  /\ file' = f
  /\ originalPreview' = createObjectURL(f)
  /\ appState' = "IDLE"
  /\ processedImage' = Null
  /\ maskBase64' = Null
  /\ error' = Null
  /\ SelectorReset
  /\ lastEvent' = Event("handleFileChange", Null, "none")
  /\ gesture' = Null
  /\ maskOrigin' = Null
  /\ UNCHANGED <<catalog, env, calls, started, imgMounted, probe>>

\* variant: the reset keeps the mask
handleReset_keepMask ==
  /\ originalPreview # Null
  /\ appState = "SUCCESS" => processedImage # Null
  /\ file' = Null
  /\ originalPreview' = Null
  /\ processedImage' = Null
  /\ appState' = "IDLE"
  /\ error' = Null
  /\ SelectorReset
  /\ lastEvent' = Event("handleReset", Null, "none")
  /\ gesture' = Null
  /\ UNCHANGED <<catalog, env, calls, started, imgMounted, probe, maskBase64, maskOrigin>>

\* handleReset: Cancel beside the editor, Start Over in the comparison view;
\* either way the editor is unmounted
handleReset ==
  /\ originalPreview # Null
  /\ appState = "SUCCESS" => processedImage # Null
  /\ file' = Null
  /\ originalPreview' = Null
  /\ processedImage' = Null
  /\ maskBase64' = Null
  /\ appState' = "IDLE"
  /\ error' = Null
  /\ SelectorReset
  /\ lastEvent' = Event("handleReset", Null, "none")
  /\ gesture' = Null
  /\ maskOrigin' = Null
  /\ UNCHANGED <<catalog, env, calls, started, imgMounted, probe>>

startDrawing(name, e) ==
  /\ Mounted
  /\ LET coords == getCoords(imgRef, e)
         newSelection == Rectangle(coords.x, coords.y, 0, 0)
     IN  /\ drawingRef' = TRUE
         /\ isDrawing' = TRUE
         /\ startPosRef' = coords
         /\ currentSelectionRef' = newSelection
         /\ selection' = newSelection
  /\ lastEvent' = Event(name, e, "none")
  /\ gesture' = [press |-> e, last |-> e, clear |-> "no",
                  rect |-> currentSelectionRef']
  /\ UNCHANGED <<appVars, probe>>

\* variant: a move is ignored only before the first press
draw_anchorOnly(name, e) ==
  /\ Mounted
  /\ IF startPosRef = Null
     THEN UNCHANGED <<selectorVars, gesture>>
     ELSE /\ LET newSelection == drawSelection(startPosRef, getCoords(imgRef, e))
             IN  /\ currentSelectionRef' = newSelection
                 /\ selection' = newSelection
          /\ gesture' = [gesture EXCEPT !.last = e, !.rect = currentSelectionRef',
                           !.clear = IF @ = "no" THEN "no" ELSE "before_move"]
          /\ UNCHANGED <<isDrawing, drawingRef, startPosRef>>
  /\ lastEvent' = Event(name, e, "none")
  /\ UNCHANGED <<appVars, probe>>

draw(name, e) ==
  /\ Mounted
  /\ IF ~drawingRef \/ startPosRef = Null
     THEN UNCHANGED <<selectorVars, gesture>>
     ELSE /\ LET newSelection == drawSelection(startPosRef, getCoords(imgRef, e))
             IN  /\ currentSelectionRef' = newSelection
                 /\ selection' = newSelection
          /\ gesture' = [gesture EXCEPT !.last = e, !.rect = currentSelectionRef',
                           !.clear = IF @ = "no" THEN "no" ELSE "before_move"]
          /\ UNCHANGED <<isDrawing, drawingRef, startPosRef>>
  /\ lastEvent' = Event(name, e, "none")
  /\ UNCHANGED <<appVars, probe>>

stopDrawing(name, e) ==
  /\ Mounted
  /\ drawingRef' = FALSE
  /\ isDrawing' = FALSE
  /\ LET mask == generateMask(imgRef, currentSelectionRef)
     IN  /\ maskBase64' = mask
         /\ maskOrigin' = IF mask = Null THEN Null ELSE file.name
         /\ lastEvent' = Event(name, e, Emitted(mask))
  /\ UNCHANGED <<sessionVars, selection, startPosRef, currentSelectionRef, gesture, probe>>

\* the Clear Selection button, rendered while selection.w > 0
ClearSelection ==
  /\ Mounted
  /\ selection # Null
  /\ selection.w > 0
  /\ selection' = Null
  /\ currentSelectionRef' = Null
  /\ maskBase64' = Null
  /\ lastEvent' = Event("ClearSelection", Null, "null")
  /\ gesture' = [gesture EXCEPT !.clear = "after_move"]
  /\ maskOrigin' = Null
  /\ UNCHANGED <<sessionVars, isDrawing, drawingRef, startPosRef, probe>>

\* the canvas event bindings
onMouseDown == Mounted /\ \E e \in InsidePoints(file) : startDrawing("onMouseDown", e)

onMouseMove == Mounted /\ \E e \in InsidePoints(file) : draw("onMouseMove", e)

onMouseUp == Mounted /\ \E e \in InsidePoints(file) : stopDrawing("onMouseUp", e)

onMouseLeave == Mounted /\ \E e \in AllPoints(file) : stopDrawing("onMouseLeave", e)

onTouchStart == Mounted /\ \E e \in InsidePoints(file) : startDrawing("onTouchStart", e)

onTouchMove == Mounted /\ \E e \in AllPoints(file) : draw("onTouchMove", e)

onTouchEnd == Mounted /\ \E e \in AllPoints(file) : stopDrawing("onTouchEnd", e)

Upload == \E f \in catalog : handleFileChange(f)

\* ----------------------------------------------------------- specification
InitWith(images) ==
  /\ catalog = images
  /\ env = [API_KEY |-> TRUE]
  /\ file = Null
  /\ originalPreview = Null
  /\ processedImage = Null
  /\ maskBase64 = Null
  /\ appState = "IDLE"
  /\ error = Null
  /\ calls = {}
  /\ started = 0
  /\ imgMounted = TRUE
  /\ maskOrigin = Null
  /\ SelectorInit
  /\ lastEvent = [event |-> "mount", point |-> Null, wasDrawing |-> FALSE,
                  held |-> Null, emitted |-> "none"]
  /\ gesture = Null
  /\ probe = Null

Init == InitWith(SmallImages)

Next ==
  \/ Upload
  \/ handleReset
  \/ onMouseDown
  \/ onMouseMove
  \/ onMouseUp
  \/ onMouseLeave
  \/ onTouchStart
  \/ onTouchMove
  \/ onTouchEnd
  \/ ClearSelection

Spec == Init /\ [][Next]_vars

\* the 800x600 image shown at 400x300
InitExample == InitWith({ImageE})

SpecExample == InitExample /\ [][Next]_vars


\* the editor rendered for a file whose image element is not mounted
InitUnmounted ==
  /\ catalog = SmallImages
  /\ env = [API_KEY |-> TRUE]
  /\ file \in SmallImages
  /\ originalPreview = createObjectURL(file)
  /\ processedImage = Null
  /\ maskBase64 = Null
  /\ appState = "IDLE"
  /\ error = Null
  /\ calls = {}
  /\ started = 0
  /\ imgMounted = FALSE
  /\ maskOrigin = Null
  /\ SelectorInit
  /\ lastEvent = [event |-> "mount", point |-> Null, wasDrawing |-> FALSE,
                  held |-> Null, emitted |-> "none"]
  /\ gesture = Null
  /\ probe = Null

NextCanvas ==
  \/ onMouseDown
  \/ onMouseMove
  \/ onMouseUp
  \/ onMouseLeave
  \/ onTouchStart
  \/ onTouchMove
  \/ onTouchEnd

SpecUnmounted == InitUnmounted /\ [][NextCanvas]_vars

\* ------------------------------------------- the coordinate-mapper in isolation
\* 800x600 shown at 600x450, offset from the client origin
ImageF == Image("F", 800, 600, 10, 20, 600, 450)

ProbeImages == {ImageB, ImageE, ImageF}

ProbePoints(img) ==
  {ClientPoint(img.rect.left + ox, img.rect.top + oy) : ox \in {1, 9}, oy \in {0, 15}}

Factors == {2, 3, 4, 5}

\* the same image element displayed k times larger
ScaleDisplay(img, k) ==
  [img EXCEPT !.rect.width = @ * k, !.rect.height = @ * k]

\* the pointer at the same relative position inside the enlarged image
SamePosition(img, e, k) ==
  ClientPoint(img.rect.left + k * (e.x - img.rect.left),
              img.rect.top + k * (e.y - img.rect.top))

InitCoords ==
  /\ catalog = {}
  /\ env = [API_KEY |-> TRUE]
  /\ file = Null
  /\ originalPreview = Null
  /\ processedImage = Null
  /\ maskBase64 = Null
  /\ appState = "IDLE"
  /\ error = Null
  /\ calls = {}
  /\ started = 0
  /\ imgMounted = TRUE
  /\ maskOrigin = Null
  /\ SelectorInit
  /\ lastEvent = [event |-> "mount", point |-> Null, wasDrawing |-> FALSE,
                  held |-> Null, emitted |-> "none"]
  /\ gesture = Null
  /\ \E img \in ProbeImages : \E e \in ProbePoints(img) : \E k \in Factors :
       probe = [img |-> img, e |-> e, k |-> k, base |-> Null, scaled |-> Null]

MapBase ==
  /\ probe.base = Null
  /\ probe' = [probe EXCEPT !.base = getCoords(probe.img, probe.e)]
  /\ UNCHANGED <<appVars, selectorVars, lastEvent, gesture>>

MapScaled ==
  /\ probe.scaled = Null
  /\ probe' = [probe EXCEPT !.scaled = getCoords(ScaleDisplay(probe.img, probe.k),
                                                 SamePosition(probe.img, probe.e, probe.k))]
  /\ UNCHANGED <<appVars, selectorVars, lastEvent, gesture>>

NextCoords == MapBase \/ MapScaled

SpecCoords == InitCoords /\ [][NextCoords]_vars


\* ----------------------------------------------------- the API client (gemini)
\* a text is its words in order; the empty text is the empty string
Text(words) == [kind |-> "text", words |-> words]

toLowerCase(text) ==
  Text([i \in DOMAIN text.words |->
          CASE text.words[i] = "Sorry" -> "sorry"
            [] text.words[i] = "CANNOT" -> "cannot"
            [] text.words[i] = "Policy" -> "policy"
            [] text.words[i] = "Here" -> "here"
            [] OTHER -> text.words[i]])

includes(text, phrase) == \E i \in DOMAIN text.words : text.words[i] = phrase

\* a content part: inline data, text, or both absent
InlinePart(data) == [inlineData |-> [mimeType |-> "image/png", data |-> data], text |-> Null]

TextPart(text) == [inlineData |-> Null, text |-> text]

\* part.inlineData && part.inlineData.data
HasImage(part) == IF part.inlineData = Null THEN FALSE ELSE part.inlineData.data # ""

\* p.text
HasText(part) == IF part.text = Null THEN FALSE ELSE part.text.words # <<>>

Failure(message, detail) == [ok |-> FALSE, message |-> message, detail |-> detail]

Success(data) ==
  [ok |-> TRUE, imageUrl |-> [kind |-> "dataurl", mime |-> "image/png", data |-> data],
   mimeType |-> "image/png"]

RefusalMessage == "The AI refused to process this image due to safety policies."

\* the for loop: the inline data of the first part that carries an image, or Null
RECURSIVE FindImage(_)
FindImage(parts) ==
  IF parts = <<>> THEN Null
  ELSE IF HasImage(Head(parts)) THEN Head(parts).inlineData
  ELSE FindImage(Tail(parts))

\* responseParts.find(p => p.text)
RECURSIVE FindText(_)
FindText(parts) ==
  IF parts = <<>> THEN Null
  ELSE IF HasText(Head(parts)) THEN Head(parts)
  ELSE FindText(Tail(parts))

\* the first candidate's content, when the response has one
Content(parts) == [kind |-> "content", parts |-> parts]

\* variant: the loop keeps the last image of the response
parseResponse_lastImage(content) ==
  IF content = Null THEN Failure("No content generated from the model.", Null)
  ELSE LET images == {i \in DOMAIN content.parts : HasImage(content.parts[i])}
       IN  IF images # {}
           THEN Success(content.parts[CHOOSE i \in images : \A j \in images : j <= i].inlineData.data)
           ELSE Failure("The model did not return a valid image.", Null)

\* what removeWatermark makes of the response: the image, or the error thrown
parseResponse(content) ==
  IF content = Null THEN Failure("No content generated from the model.", Null)
  ELSE LET responseParts == content.parts
           found == FindImage(responseParts)
           textPart == FindText(responseParts)
       IN  IF found # Null THEN Success(found.data)
           ELSE IF textPart # Null
                THEN LET lowerText == toLowerCase(textPart.text)
                     IN  IF \/ includes(lowerText, "cannot")
                            \/ includes(lowerText, "sorry")
                            \/ includes(lowerText, "policy")
                         THEN Failure(RefusalMessage, Null)
                         ELSE Failure("Model returned text instead of image", textPart.text)
           ELSE Failure("The model did not return a valid image.", Null)

\* ------------------------------------------- the response handling in isolation
MaxParts == 3

TextSamples ==
  {Text(<<>>), Text(<<"Here", "is">>), Text(<<"Sorry", "no">>), Text(<<"I", "CANNOT">>),
   Text(<<"Policy">>)}

PartSamples ==
  {InlinePart(d) : d \in {"", "img1", "img2"}} \cup {TextPart(t) : t \in TextSamples}

RECURSIVE SeqsUpTo(_, _)
SeqsUpTo(S, n) ==
  IF n = 0 THEN {<<>>}
  ELSE LET shorter == SeqsUpTo(S, n - 1)
       IN  shorter \cup {Append(q, x) : q \in shorter, x \in S}

ResponseSamples == {Null} \cup {Content(parts) : parts \in SeqsUpTo(PartSamples, MaxParts)}

InitResponse ==
  /\ catalog = {}
  /\ env = [API_KEY |-> TRUE]
  /\ file = Null
  /\ originalPreview = Null
  /\ processedImage = Null
  /\ maskBase64 = Null
  /\ appState = "IDLE"
  /\ error = Null
  /\ calls = {}
  /\ started = 0
  /\ imgMounted = TRUE
  /\ maskOrigin = Null
  /\ SelectorInit
  /\ lastEvent = [event |-> "mount", point |-> Null, wasDrawing |-> FALSE,
                  held |-> Null, emitted |-> "none"]
  /\ gesture = Null
  /\ \E content \in ResponseSamples :
       probe = [kind |-> "response", content |-> content, result |-> Null]

ReadResponse ==
  /\ probe.result = Null
  /\ probe' = [probe EXCEPT !.result = parseResponse(probe.content)]
  /\ UNCHANGED <<appVars, selectorVars, lastEvent, gesture>>

SpecResponse == InitResponse /\ [][ReadResponse]_vars

\* ------------------------------------------------- the aspect-ratio hint (gemini)
\* Numbers are exact fractions num/den in lowest terms.  Two distinct
\* differences |W/H - val| over the dimensions studied here are much further
\* apart than the rounding error of a double, so comparing the exact fractions
\* orders them as the code's doubles are ordered.
RECURSIVE GCD(_, _)
GCD(a, b) == IF b = 0 THEN a ELSE GCD(b, a % b)

Ratio(num, den) == [num |-> num \div GCD(num, den), den |-> den \div GCD(num, den)]

\* height * |width / height - val|: the differences of one image all carry the
\* same positive factor height, which leaves their order unchanged
RatioDiff(width, height, val) == Ratio(Abs(width * val.den - val.num * height), val.den)

\* a < b
RatioLess(a, b) == a.num * b.den < b.num * a.den

\* Object.entries(supportedRatios), in insertion order
supportedRatios ==
  << [key |-> "1:1", val |-> Ratio(1, 1)],
     [key |-> "3:4", val |-> Ratio(75, 100)],
     [key |-> "4:3", val |-> Ratio(133, 100)],
     [key |-> "9:16", val |-> Ratio(5625, 10000)],
     [key |-> "16:9", val |-> Ratio(17778, 10000)] >>

\* the loop over the entries from position i on; minDiff is Infinity while
\* acc.infinite holds
RECURSIVE ClosestFrom(_, _, _, _, _)
ClosestFrom(entries, width, height, i, acc) ==
  IF i > Len(entries) THEN acc.closestRatio
  ELSE LET diff == RatioDiff(width, height, entries[i].val)
       IN  IF acc.infinite \/ RatioLess(diff, acc.minDiff)
           THEN ClosestFrom(entries, width, height, i + 1,
                  [closestRatio |-> entries[i].key, minDiff |-> diff, infinite |-> FALSE])
           ELSE ClosestFrom(entries, width, height, i + 1, acc)

\* the aspectRatio that processFile resolves with for a width x height image
aspectRatio(width, height) ==
  ClosestFrom(supportedRatios, width, height, 1,
    [closestRatio |-> "1:1", minDiff |-> Ratio(0, 1), infinite |-> TRUE])

\* ---------------------------------------------------- the hint in isolation
MaxDim == 120

InitAspect ==
  /\ catalog = {}
  /\ env = [API_KEY |-> TRUE]
  /\ file = Null
  /\ originalPreview = Null
  /\ processedImage = Null
  /\ maskBase64 = Null
  /\ appState = "IDLE"
  /\ error = Null
  /\ calls = {}
  /\ started = 0
  /\ imgMounted = TRUE
  /\ maskOrigin = Null
  /\ SelectorInit
  /\ lastEvent = [event |-> "mount", point |-> Null, wasDrawing |-> FALSE,
                  held |-> Null, emitted |-> "none"]
  /\ gesture = Null
  /\ \E width \in 1..MaxDim, height \in 1..MaxDim :
       probe = [kind |-> "aspect", naturalWidth |-> width, naturalHeight |-> height,
                aspectRatio |-> "none"]

ClassifyAspect ==
  /\ probe.aspectRatio = "none"
  /\ probe' = [probe EXCEPT !.aspectRatio = aspectRatio(probe.naturalWidth, probe.naturalHeight)]
  /\ UNCHANGED <<appVars, selectorVars, lastEvent, gesture>>

SpecAspect == InitAspect /\ [][ClassifyAspect]_vars

\* ------------------------------------------------- processing a file (App)
MaxCalls == 2

\* the ProcessingError that the catch block of handleProcess sets
ProcessingError(details) == [message |-> "Failed to process image.", details |-> details]

\* whether the editor's selection of this trigger is kept: for the first
\* trigger of an observed behaviour
Observed == probe # Null /\ started = 0

\* for reference: what the interface showed just before a trigger, beyond
\* the file and the mask that the call captures anyway
Snapshot ==
  IF Observed
  THEN [processedImage |-> processedImage, appState |-> appState, selection |-> selection]
  ELSE [processedImage |-> processedImage, appState |-> appState]

\* a started handleProcess: the file and mask of the render it was clicked in
Call(id) ==
  [id |-> id, file |-> file, maskBase64 |-> maskBase64, stage |-> "reading",
   request |-> Null, maskOrigin |-> maskOrigin, before |-> Snapshot]

\* the Button of handleProcess, disabled while appState is PROCESSING
handleProcess ==
  /\ Mounted
  /\ appState # "PROCESSING"
  /\ file # Null
  /\ started < MaxCalls
  /\ IF env.API_KEY
     THEN /\ appState' = "PROCESSING"
          /\ error' = Null
          /\ calls' = calls \cup {Call(started + 1)}
          /\ started' = started + 1
     ELSE /\ appState' = "ERROR"
          /\ error' = ProcessingError("API Key is missing. Please check your configuration.")
          /\ UNCHANGED <<calls, started>>
  /\ lastEvent' = Event("handleProcess", Null, "none")
  /\ UNCHANGED <<catalog, env, file, originalPreview, processedImage, imgMounted,
                 maskBase64, maskOrigin, selectorVars, gesture, probe>>

SourcePart(f) == [kind |-> "source", inlineData |-> [mimeType |-> "image/*", data |-> f.name]]

\* cleanMask: the data URL without its prefix
MaskPart(mask) == [kind |-> "mask", inlineData |-> [mimeType |-> "image/png", data |-> mask.data]]

PromptPart(prompt) == [kind |-> "text", text |-> prompt]

\* variant: the mask is read from the App when the request is built
RequestMask_current(c) == maskBase64

\* the maskBase64 argument of removeWatermark
RequestMask(c) == c.maskBase64

\* the argument of generateContent
Request(f, mask) ==
  [model |-> "gemini-2.5-flash-image",
   parts |-> IF mask # Null
             THEN <<SourcePart(f), MaskPart(mask), PromptPart("TASK: Targeted Image Inpainting.")>>
             ELSE <<SourcePart(f), PromptPart("Edit this image to completely remove any watermarks")>>,
   aspectRatio |-> aspectRatio(f.naturalWidth, f.naturalHeight)]

\* processFile has resolved: the request is built and sent
sendRequest(c) ==
  /\ c.stage = "reading"
  /\ calls' = (calls \ {c}) \cup
                {[c EXCEPT !.stage = "sent", !.request = Request(c.file, RequestMask(c))]}
  /\ lastEvent' = Event("sendRequest", Null, "none")
  /\ UNCHANGED <<catalog, env, file, originalPreview, processedImage, appState, error,
                 started, imgMounted, maskBase64, maskOrigin, selectorVars, gesture, probe>>

\* variant: the failed call is started again
catchError_retry(c, message) ==
  /\ appState' = "ERROR"
  /\ error' = ProcessingError(message)
  /\ calls' = (calls \ {c}) \cup {[c EXCEPT !.stage = "reading", !.request = Null]}
  /\ lastEvent' = [event |-> "catchError", point |-> Null, wasDrawing |-> drawingRef,
                   held |-> maskBase64, emitted |-> "none", call |-> c]
  /\ UNCHANGED <<catalog, env, file, originalPreview, processedImage, started, imgMounted,
                 maskBase64, maskOrigin, selectorVars, gesture, probe>>

\* the catch block of handleProcess
catchError(c, message) ==
  /\ appState' = "ERROR"
  /\ error' = ProcessingError(message)
  /\ calls' = calls \ {c}
  /\ lastEvent' = [event |-> "catchError", point |-> Null, wasDrawing |-> drawingRef,
                   held |-> maskBase64, emitted |-> "none", call |-> c]
  /\ UNCHANGED <<catalog, env, file, originalPreview, processedImage, started, imgMounted,
                 maskBase64, maskOrigin, selectorVars, gesture, probe>>

\* the image the model returns for a file
CleanOf(f) == IF f.name = "S" THEN "cleanS" ELSE "cleanT"

\* what the API may answer to a request
Responses(c) ==
  {Content(<<InlinePart(CleanOf(c.file))>>),
   Content(<<TextPart(Text(<<"Sorry", "no">>))>>)}

\* generateContent has resolved: the rest of removeWatermark and handleProcess.
\* Entering SUCCESS unmounts the editor.
receiveResponse(c) ==
  /\ c.stage = "sent"
  /\ \E content \in Responses(c) :
       LET result == parseResponse(content)
       IN  IF result.ok
           THEN /\ processedImage' = result.imageUrl
                /\ appState' = "SUCCESS"
                /\ calls' = calls \ {c}
                /\ SelectorReset
                /\ gesture' = Null
                /\ lastEvent' = [event |-> "success", point |-> Null, wasDrawing |-> drawingRef,
                                 held |-> maskBase64, emitted |-> "none", call |-> c]
                /\ UNCHANGED <<catalog, env, file, originalPreview, error, started,
                               imgMounted, maskBase64, maskOrigin, probe>>
           ELSE catchError(c, result.message)

\* generateContent has rejected
rejectRequest(c) ==
  /\ c.stage = "sent"
  /\ catchError(c, "fetch failed")

Send == \E c \in calls : sendRequest(c)

Receive == \E c \in calls : receiveResponse(c)

Reject == \E c \in calls : rejectRequest(c)

InitApp ==
  /\ catalog = AppImages
  /\ env \in {[API_KEY |-> TRUE], [API_KEY |-> FALSE]}
  /\ file = Null
  /\ originalPreview = Null
  /\ processedImage = Null
  /\ maskBase64 = Null
  /\ appState = "IDLE"
  /\ error = Null
  /\ calls = {}
  /\ started = 0
  /\ imgMounted = TRUE
  /\ maskOrigin = Null
  /\ SelectorInit
  /\ lastEvent = [event |-> "mount", point |-> Null, wasDrawing |-> FALSE,
                  held |-> Null, emitted |-> "none"]
  /\ gesture = Null
  /\ probe = Null

\* The leave and touch bindings run the same three functions as the mouse
\* bindings and are studied under Spec.
NextApp ==
  \/ Upload
  \/ handleReset
  \/ onMouseDown
  \/ onMouseMove
  \/ onMouseUp
  \/ ClearSelection
  \/ handleProcess
  \/ Send
  \/ Receive
  \/ Reject

SpecApp == InitApp /\ [][NextApp]_vars

\* one file, with the selection of the first trigger kept for reference
InitFailure ==
  /\ catalog = {ImageS}
  /\ env \in {[API_KEY |-> TRUE], [API_KEY |-> FALSE]}
  /\ file = Null
  /\ originalPreview = Null
  /\ processedImage = Null
  /\ maskBase64 = Null
  /\ appState = "IDLE"
  /\ error = Null
  /\ calls = {}
  /\ started = 0
  /\ imgMounted = TRUE
  /\ maskOrigin = Null
  /\ SelectorInit
  /\ lastEvent = [event |-> "mount", point |-> Null, wasDrawing |-> FALSE,
                  held |-> Null, emitted |-> "none"]
  /\ gesture = Null
  /\ probe = [kind |-> "observe"]

SpecFailure == InitFailure /\ [][NextApp]_vars

\* =================================================================== claims
StopEvents == {"onMouseUp", "onMouseLeave", "onTouchEnd"}

MoveEvents == {"onMouseMove", "onTouchMove"}

Degenerate(sel) == IF sel = Null THEN TRUE ELSE sel.w = 0 \/ sel.h = 0

\* the rectangle lies fully inside the image bounds
InsideBounds(sel, img) ==
  /\ sel.x >= 0
  /\ sel.y >= 0
  /\ sel.x + sel.w <= img.naturalWidth * Unit
  /\ sel.y + sel.h <= img.naturalHeight * Unit

\* x <= px < x+w and y <= py < y+h
InRect(sel, px, py) ==
  /\ sel.x <= px * Unit
  /\ px * Unit < sel.x + sel.w
  /\ sel.y <= py * Unit
  /\ py * Unit < sel.y + sel.h

\* a gesture has just ended: a stop handler ran while the tracker was Dragging
GestureEnded == lastEvent.event \in StopEvents /\ lastEvent.wasDrawing

\* a move handler has just updated the live rectangle
MoveActed == lastEvent.event \in MoveEvents /\ lastEvent.wasDrawing

\* C1: the live rectangle computed by a move event has w >= 0 and h >= 0,
\* its corner (x, y) is the component-wise minimum of the anchor and the
\* current pointer point, and its extents are the absolute differences of the
\* two points, whatever the drag direction.
C1_NormalizedRectangle ==
  MoveActed =>
    LET a == startPosRef
        c == getCoords(imgRef, lastEvent.point)
        r == currentSelectionRef
    IN  /\ r.w >= 0
        /\ r.h >= 0
        /\ r.x = Min(a.x, c.x)
        /\ r.y = Min(a.y, c.y)
        /\ r.w = FAbs(FSub(c.x, a.x))
        /\ r.h = FAbs(FSub(c.y, a.y))

\* an up-left drag: the pointer is left of and above the anchor
C1_Witness ==
  /\ MoveActed
  /\ getCoords(imgRef, lastEvent.point).x < startPosRef.x
  /\ getCoords(imgRef, lastEvent.point).y < startPosRef.y
  /\ currentSelectionRef.w > 0
  /\ currentSelectionRef.h > 0

\* the mask is W x H and white exactly on the pixels of sel, black elsewhere
ExactMask(mask, img, sel) ==
  /\ mask # Null
  /\ mask.data.width = img.naturalWidth
  /\ mask.data.height = img.naturalHeight
  /\ \A p \in Pixels(mask.data) :
       PixelAt(mask.data, p[1], p[2]) = IF InRect(sel, p[1], p[2]) THEN "white" ELSE "black"

\* C2: for a finalized rectangle with positive extents lying fully inside the
\* image bounds, the emitted mask is exactly W x H pixels, and pixel (px, py)
\* is white iff x <= px < x+w and y <= py < y+h; every other pixel is black.
C2_MaskInsideBounds ==
  (/\ lastEvent.event \in StopEvents
   /\ ~Degenerate(currentSelectionRef)
   /\ InsideBounds(currentSelectionRef, imgRef))
  => ExactMask(maskBase64, imgRef, currentSelectionRef)

\* C3: a gesture end with a rectangle of zero width or zero height, or with no
\* rectangle at all, emits null and never an encoded mask.
C3_DegenerateEmitsNull ==
  (lastEvent.event \in StopEvents /\ Degenerate(currentSelectionRef))
  => (lastEvent.emitted = "null" /\ maskBase64 = Null)

\* a purely horizontal drag has just ended
C3_Witness ==
  /\ GestureEnded
  /\ currentSelectionRef # Null
  /\ currentSelectionRef.w > 0
  /\ currentSelectionRef.h = 0
  /\ maskBase64 = Null

\* C4 (as stated): a gesture that ends with a degenerate rectangle while the
\* caller holds a mask from an earlier gesture leaves that mask unchanged.
C4_PriorMaskKept ==
  (GestureEnded /\ Degenerate(currentSelectionRef) /\ lastEvent.held # Null)
  => maskBase64 = lastEvent.held

\* C4 (amended): a gesture that ends with a degenerate rectangle while the
\* caller holds a mask from an earlier gesture emits null, and the caller's
\* mask becomes null.
C4_PriorMaskReplacedByNull ==
  (GestureEnded /\ Degenerate(currentSelectionRef) /\ lastEvent.held # Null)
  => (lastEvent.emitted = "null" /\ maskBase64 = Null)

\* a click without drag has just ended while a mask was held
C4_Witness ==
  /\ GestureEnded
  /\ currentSelectionRef # Null
  /\ currentSelectionRef.w = 0
  /\ currentSelectionRef.h = 0
  /\ lastEvent.held # Null
  /\ maskBase64 = Null

\* C5: Clear Selection emits null and leaves both rectangles absent, and until
\* a new press every later move, release or pointer-leave leaves the caller's
\* mask null.
C5_ClearLeavesNoResidue ==
  /\ lastEvent.event = "ClearSelection"
       => (maskBase64 = Null /\ selection = Null /\ currentSelectionRef = Null)
  /\ (gesture # Null /\ gesture.clear # "no") => maskBase64 = Null

\* C6: the mask held after a non-degenerate gesture is white only inside the
\* rectangle of that gesture: every pixel the rectangle does not touch is
\* black, whatever mask was held before.
C6_ReplacedNotMerged ==
  (lastEvent.event \in StopEvents /\ lastEvent.emitted = "mask")
  => /\ maskBase64 # Null
     /\ \A p \in Pixels(maskBase64.data) :
          Coverage(currentSelectionRef, p[1], p[2]) = "none"
            => PixelAt(maskBase64.data, p[1], p[2]) = "black"

\* a second selection has replaced a mask that was white somewhere else
C6_Witness ==
  /\ GestureEnded
  /\ lastEvent.emitted = "mask"
  /\ lastEvent.held # Null
  /\ \E p \in Pixels(maskBase64.data) :
       /\ PixelAt(lastEvent.held.data, p[1], p[2]) = "white"
       /\ PixelAt(maskBase64.data, p[1], p[2]) = "black"

\* C7: each gesture-end event from Dragging moves the tracker to Idle and
\* emits the mask of the rectangle as it stood at the last press or move.
C7_EndEmitsLastGestureRect ==
  GestureEnded =>
    /\ ~drawingRef
    /\ maskBase64 = generateMask(imgRef, gesture.rect)
    /\ lastEvent.emitted = Emitted(maskBase64)

ExamplePress == ClientPoint(100, 50)

ExampleRelease == ClientPoint(150, 100)

ExampleRectangle == Rectangle(200 * Unit, 100 * Unit, 100 * Unit, 100 * Unit)

\* C8 (as stated): the finalized rectangle is determined by the press point and
\* the release point, both mapped by getCoords; pressing at (100,50) and
\* releasing at (150,100) on the 800x600 image shown at 400x300 finalizes
\* {x:200, y:100, w:100, h:100}.
C8_PressAndReleasePoint ==
  GestureEnded =>
    /\ currentSelectionRef = drawSelection(getCoords(imgRef, gesture.press),
                                           getCoords(imgRef, lastEvent.point))
    /\ (gesture.press = ExamplePress /\ lastEvent.point = ExampleRelease)
         => currentSelectionRef = ExampleRectangle

\* C8 (amended): the finalized rectangle is determined by the press point and
\* the point of the last press-or-move event, both mapped by getCoords, and is
\* absent if the selection was cleared after that event; the release point is
\* not read.  Pressing at (100,50) and moving to (150,100) before the release
\* finalizes {x:200, y:100, w:100, h:100}.
C8_PressAndLastMovePoint ==
  GestureEnded =>
    /\ currentSelectionRef =
         IF gesture.clear = "after_move" THEN Null
         ELSE drawSelection(getCoords(imgRef, gesture.press),
                            getCoords(imgRef, gesture.last))
    /\ (/\ gesture.press = ExamplePress
        /\ gesture.last = ExampleRelease
        /\ gesture.clear # "after_move")
         => currentSelectionRef = ExampleRectangle

\* the example gesture has ended, released somewhere else than its last move
C8_Witness ==
  /\ GestureEnded
  /\ file = ImageE
  /\ gesture.press = ExamplePress
  /\ gesture.last = ExampleRelease
  /\ lastEvent.point # ExampleRelease
  /\ currentSelectionRef = ExampleRectangle
  /\ maskBase64 # Null

ProbeDone == probe # Null /\ probe.base # Null /\ probe.scaled # Null

RECURSIVE IsPow2(_)
IsPow2(k) == IF k = 1 THEN TRUE ELSE IF k % 2 = 1 THEN FALSE ELSE IsPow2(k \div 2)

\* C9 (as stated): with the displayed size multiplied by any factor k and the
\* pointer at the same relative position, getCoords returns the same point.
C9_ScaleInvariant == ProbeDone => probe.base = probe.scaled

\* C9 (amended): with the displayed size multiplied by a power of two (such
\* as doubled) and the pointer at the same relative position, getCoords
\* returns the same point; for other factors the two results can differ by
\* the rounding of the scale factor.
C9_ScaleInvariantPow2 == (ProbeDone /\ IsPow2(probe.k)) => probe.base = probe.scaled

\* a doubled display with a fractional scale factor and a pointer off the origin
C9_Witness ==
  /\ ProbeDone
  /\ probe.k = 2
  /\ probe.img = ImageF
  /\ probe.e.x = probe.img.rect.left + 1
  /\ probe.base = probe.scaled
  /\ probe.base.x % Unit # 0

\* C10: a finalized rectangle with positive extents that extends outside the
\* image bounds still yields a W x H mask, white exactly on the pixels of the
\* rectangle that fall inside the surface and black elsewhere.
C10_MaskClipped ==
  (/\ lastEvent.event \in StopEvents
   /\ ~Degenerate(currentSelectionRef)
   /\ ~InsideBounds(currentSelectionRef, imgRef))
  => ExactMask(maskBase64, imgRef, currentSelectionRef)


PressEvents == {"onMouseDown", "onTouchStart"}

\* C11: without a mounted image element the coordinate mapper returns {0,0}
\* and raises no error, a gesture end emits null and never a mask, and the
\* tracker still goes Dragging on a press and Idle on a gesture end.
C11_UnmountedImage ==
  imgRef = Null =>
    /\ lastEvent.event \in PressEvents =>
         /\ drawingRef
         /\ startPosRef = Point(0, 0)
         /\ currentSelectionRef = Rectangle(0, 0, 0, 0)
    /\ MoveActed =>
         /\ drawingRef
         /\ currentSelectionRef = Rectangle(0, 0, 0, 0)
    /\ lastEvent.event \in StopEvents =>
         /\ ~drawingRef
         /\ lastEvent.emitted = "null"
         /\ maskBase64 = Null

\* a diagonal drag has ended on an editor whose image element is absent
C11_Witness ==
  /\ Mounted
  /\ imgRef = Null
  /\ GestureEnded
  /\ gesture.last.x # gesture.press.x
  /\ gesture.last.y # gesture.press.y
  /\ currentSelectionRef = Rectangle(0, 0, 0, 0)
  /\ maskBase64 = Null


ResponseRead == probe # Null /\ probe.result # Null

\* the parts of the response under study, none when it has no content
ProbeParts == IF probe.content = Null THEN <<>> ELSE probe.content.parts

\* the positions of the parts that carry an image
ImagePositions(parts) == {i \in DOMAIN parts : HasImage(parts[i])}

\* the positions of the parts whose text contains a refusal phrase
RefusalPositions(parts) ==
  {i \in DOMAIN parts :
     /\ HasText(parts[i])
     /\ \E phrase \in {"cannot", "sorry", "policy"} :
          includes(toLowerCase(parts[i].text), phrase)}

\* C12: when the response has one or more image parts, removeWatermark succeeds
\* with the first of them in response order, whatever text parts come before
\* or after it.
C12_FirstImageWins ==
  (ResponseRead /\ ImagePositions(ProbeParts) # {})
  => LET first == CHOOSE i \in ImagePositions(ProbeParts) :
                    \A j \in ImagePositions(ProbeParts) : i <= j
     IN  /\ probe.result.ok
         /\ probe.result.imageUrl.data = ProbeParts[first].inlineData.data

\* a refusal text, then an image, then another image
C12_Witness ==
  /\ ResponseRead
  /\ Len(ProbeParts) = 3
  /\ 1 \in RefusalPositions(ProbeParts)
  /\ ImagePositions(ProbeParts) = {2, 3}
  /\ ProbeParts[2] # ProbeParts[3]
  /\ probe.result.ok
  /\ probe.result.imageUrl.data = ProbeParts[2].inlineData.data

\* C13: without an image part removeWatermark fails, with the refusal error
\* whenever text returned in the response contains "cannot", "sorry" or
\* "policy" in any letter case, and with a generic error otherwise.
C13_RefusalCategory ==
  (ResponseRead /\ ImagePositions(ProbeParts) = {})
  => /\ ~probe.result.ok
     /\ (probe.result.message = RefusalMessage) <=> (RefusalPositions(ProbeParts) # {})


\* the ratios the five hints stand for
HintRatio(key) ==
  CASE key = "1:1" -> Ratio(1, 1)
    [] key = "3:4" -> Ratio(3, 4)
    [] key = "4:3" -> Ratio(4, 3)
    [] key = "9:16" -> Ratio(9, 16)
    [] key = "16:9" -> Ratio(16, 9)

Hints == {"1:1", "3:4", "4:3", "9:16", "16:9"}

\* C14: the aspect-ratio hint of a W x H image is a member of
\* {1:1, 3:4, 4:3, 9:16, 16:9} and no other member's ratio is nearer to W/H.
C14_NearestRatio ==
  (probe # Null /\ probe.aspectRatio # "none")
  => /\ probe.aspectRatio \in Hints
     /\ \A other \in Hints :
          ~RatioLess(RatioDiff(probe.naturalWidth, probe.naturalHeight, HintRatio(other)),
                     RatioDiff(probe.naturalWidth, probe.naturalHeight,
                               HintRatio(probe.aspectRatio)))


\* a call has just failed
CallFailed == lastEvent.event = "catchError"

\* C15 (as stated): after a failed request the file, its preview, the mask,
\* the processed image, the selection and the application state equal their
\* values from just before the request, and the process action is not disabled.
C15_BackToPreRequestState ==
  CallFailed
  => LET c == lastEvent.call
     IN  /\ file = c.file
         /\ originalPreview = createObjectURL(c.file)
         /\ maskBase64 = c.maskBase64
         /\ processedImage = c.before.processedImage
         /\ "selection" \in DOMAIN c.before => selection = c.before.selection
         /\ appState = c.before.appState
         /\ appState # "PROCESSING"

\* the step in which a request fails: the catch block runs
FailureStep ==
  \/ lastEvent'.event = "catchError" /\ calls' # calls
  \/ lastEvent'.event = "handleProcess" /\ appState' = "ERROR"

\* C15 (amended): a failure is not retried and changes only the application
\* state, which becomes ERROR, and the error shown; the file, its preview, the
\* mask, the processed image and the selection keep the values they have at
\* the moment of the failure.
C15_FailureChangesOnlyStateAndError ==
  [][FailureStep
     => /\ appState' = "ERROR"
        /\ error' # Null
        /\ error'.message = "Failed to process image."
        /\ calls' \subseteq calls
        /\ started' = started
        /\ UNCHANGED <<file, originalPreview, maskBase64, processedImage, selection>>]_vars

\* the first request fails after the user drew a mask while it was in flight
C15_Witness ==
  /\ CallFailed
  /\ appState = "ERROR"
  /\ lastEvent.call.before.appState = "IDLE"
  /\ file = lastEvent.call.file
  /\ lastEvent.call.maskBase64 = Null
  /\ maskBase64 # Null
  /\ "selection" \in DOMAIN lastEvent.call.before
  /\ selection # lastEvent.call.before.selection


\* the committed selection has an area
HasArea(sel) == sel # Null /\ sel.w > 0 /\ sel.h > 0

\* C16: while the editor is mounted and the tracker is Idle, the caller holds
\* a mask exactly when the committed selection has positive width and height,
\* and then the mask is the one rasterized from that selection, which is also
\* the live rectangle the overlay last rendered.
C16_MaskMatchesSelection ==
  (Mounted /\ ~drawingRef)
  => /\ maskBase64 # Null <=> HasArea(selection)
     /\ maskBase64 # Null
          => /\ selection = currentSelectionRef
             /\ maskBase64 = maskOf(imgRef, selection)


\* the calls whose request has been sent
SentCalls == {c \in calls : c.stage = "sent"}

\* the parts a request must have for the mask held at the trigger
ExpectedParts(c) ==
  IF c.maskBase64 # Null
  THEN <<SourcePart(c.file),
         [kind |-> "mask", inlineData |-> [mimeType |-> "image/png", data |-> c.maskBase64.data]],
         PromptPart("TASK: Targeted Image Inpainting.")>>
  ELSE <<SourcePart(c.file), PromptPart("Edit this image to completely remove any watermarks")>>

RequestMatchesTrigger == \A c \in SentCalls : c.request.parts = ExpectedParts(c)

\* a call that stays in flight keeps its captured mask and, once sent, its request
RequestKept ==
  \A c \in calls : \A d \in calls' :
    d.id = c.id => /\ d.maskBase64 = c.maskBase64
                   /\ c.stage = "sent" => d.request = c.request

\* C17: a request that has been sent carries the mask held when the process
\* action was triggered: with a mask, the source image, then the mask, then
\* the masked-inpainting instruction; without one, the source image and the
\* general instruction only; and nothing that happens while the request is
\* in flight alters it.
C17_RequestCarriesTriggerMask == []RequestMatchesTrigger /\ [][RequestKept]_vars

\* a request sent without a mask while the caller meanwhile holds one, and a
\* request sent with a mask
C17_Witness ==
  /\ \E c \in SentCalls : c.maskBase64 = Null /\ maskBase64 # Null /\ file = c.file
  /\ \E c \in SentCalls : c.maskBase64 # Null /\ Len(c.request.parts) = 3


\* C18: right after a reset and right after an accepted upload the caller's
\* mask is null, and a mask captured by a call for a file was produced by a
\* gesture on the image of that same file.
C18_MaskBelongsToFile ==
  /\ lastEvent.event \in {"handleReset", "handleFileChange"} => maskBase64 = Null
  /\ \A c \in calls : c.maskBase64 # Null => c.maskOrigin = c.file.name

\* a request with a mask drawn on S is in flight, and after a reset another
\* file is loaded, without a mask
C18_Witness ==
  /\ \E c \in SentCalls :
       /\ c.maskBase64 # Null
       /\ c.maskOrigin = "S"
       /\ c.file.name = "S"
       /\ c.request.parts[2].kind = "mask"
  /\ lastEvent.event = "handleFileChange"
  /\ file # Null
  /\ file.name = "T"
  /\ maskBase64 = Null


\* C19: at most one API request is outstanding at any time.
C19_OneRequestOutstanding == Cardinality(SentCalls) <= 1

\* the comparison view is rendered
ComparisonShown == appState = "SUCCESS" /\ originalPreview # Null /\ processedImage # Null

\* the upload or selection view is rendered
EditorViewShown == appState # "SUCCESS"

\* C20: in SUCCESS the original preview and the processed image are both
\* non-null, so one of the two views is always shown.
C20_SomeViewShown ==
  /\ appState = "SUCCESS" => (originalPreview # Null /\ processedImage # Null)
  /\ EditorViewShown \/ ComparisonShown


\* C21: a processed image held in SUCCESS is the answer to a request for the
\* file that is loaded now.
C21_ResultOfCurrentFile ==
  (appState = "SUCCESS" /\ processedImage # Null)
  => /\ file # Null
     /\ processedImage.data = CleanOf(file)


\* C22: a move event received while the tracker is Idle changes neither the
\* anchor, the live rectangle, the committed selection nor the caller's mask,
\* leaves the tracker Idle and emits nothing.
C22_IdleMoveIsNoOp ==
  [][(lastEvent'.event \in MoveEvents /\ ~drawingRef)
     => /\ UNCHANGED <<startPosRef, currentSelectionRef, selection, maskBase64>>
        /\ ~drawingRef'
        /\ lastEvent'.emitted = "none"]_vars

\* a move after a completed gesture whose mask the caller holds, at a point
\* that is not the one the gesture last moved to
C22_Witness ==
  /\ lastEvent.event \in MoveEvents
  /\ ~lastEvent.wasDrawing
  /\ ~drawingRef
  /\ startPosRef # Null
  /\ HasArea(selection)
  /\ maskBase64 # Null
  /\ lastEvent.point # gesture.last


\* C23: a release or pointer-leave event that arrives while the tracker is
\* Idle leaves the tracker Idle, the selection unchanged and the caller's
\* mask equal to what it was before the event.
C23_IdleEndKeepsMask ==
  [][(lastEvent'.event \in StopEvents /\ ~drawingRef)
     => /\ ~drawingRef'
        /\ UNCHANGED <<selection, maskBase64>>]_vars

====
